---- MODULE Spec2Model ----
(***************************************************************************)
(* Model of helixlauncher-meta's core library:                             *)
(*   util.rs       GradleSpecifier: from_str, Display, to_url              *)
(*   component.rs  the serde schema of Component and its nested records    *)
(*                                                                         *)
(* Strings are sequences of tokens.  A token stands for a fixed,           *)
(* non-empty piece of text: ":", "@", ".", "/" and "-" are the single      *)
(* characters, "g" is a letter and "jar" is the three letters j,a,r.  No   *)
(* text can be spelled by two different token sequences, so splitting on   *)
(* a delimiter, concatenation, replacement and equality on the sequences   *)
(* are exactly those operations on the strings they spell.                 *)
(***************************************************************************)
EXTENDS Integers, Sequences, FiniteSets, TLC

VARIABLES phase, input, res, out, res2, out2, repo, url,
          traitsA, traitsB, histA, histB,
          step, comp, doc, dres,
          cpstep, cpdoc, cpres

coordVars == <<phase, input, res, out, res2, out2, repo, url>>
traitVars == <<traitsA, traitsB, histA, histB>>
serdeVars == <<step, comp, doc, dres>>
cpVars    == <<cpstep, cpdoc, cpres>>
vars      == <<coordVars, traitVars, serdeVars, cpVars>>

----------------------------------------------------------------------------
(* Bounds and input sets                                                   *)

MaxLen == 5
MaxInserts == 3
MaxNonEmpty == 2
MaxEntries == 2

Alphabet == {"g", ":", "@", ".", "jar"}

RECURSIVE SeqsUpTo(_, _)
SeqsUpTo(S, n) ==
  IF n = 0 THEN {<<>>}
  ELSE LET shorter == SeqsUpTo(S, n - 1)
       IN  shorter \cup {Append(s, x) : s \in {t \in shorter : Len(t) = n - 1}, x \in S}

\* longer texts with every segment present, among them the spec's shapes
SampleTexts ==
  { <<"g", ".", "g", ":", "g", ":", "g">>,
    <<"g", ".", "g", ":", "g", ":", "g", ":", "g", "@", "g">>,
    <<"g", ":", "g", ":", "g", "@", "jar">>,
    <<"g", ":", "g", ":", "g", "@", "g", "@", "jar">>,
    <<"g", ":", "g", ":", "g", "@", "jar", "@", "jar">>,
    <<"g", ":", "g", ":", "g", ":", "g", ":", "g">>,
    <<"g", ":", "g", ":", "g", "@", "g", ":", "g">> }

Texts == SeqsUpTo(Alphabet, MaxLen) \cup SampleTexts

\* non-empty field values for coordinates built by direct field assignment
FieldStrs ==
  { <<"g">>, <<"jar">>, <<"g", ".", "g">>, <<"g", ":", "g">>, <<"g", "@", "g">>,
    <<"g", "@", "jar">> }

BaseRepos == { <<>>, <<"g">>, <<"g", "/">> }

----------------------------------------------------------------------------
(* Option<T>                                                               *)

None == [some |-> FALSE]
Some(x) == [some |-> TRUE, v |-> x]

----------------------------------------------------------------------------
(* str::split_once / str::rsplit_once on a single-character pattern        *)

Positions(s, ch) == {i \in 1..Len(s) : s[i] = ch}

Min(S) == CHOOSE x \in S : \A y \in S : x <= y
Max(S) == CHOOSE x \in S : \A y \in S : x >= y

SplitAt(s, i) == [some |-> TRUE, l |-> SubSeq(s, 1, i - 1), r |-> SubSeq(s, i + 1, Len(s))]

split_once(s, ch) ==
  IF Positions(s, ch) = {} THEN None ELSE SplitAt(s, Min(Positions(s, ch)))

rsplit_once(s, ch) ==
  IF Positions(s, ch) = {} THEN None ELSE SplitAt(s, Max(Positions(s, ch)))

----------------------------------------------------------------------------
(* GradleSpecifier and GradleParseError                                    *)

GradleSpecifier(g, a, v, c, e) ==
  [group |-> g, artifact |-> a, version |-> v, classifier |-> c, extension |-> e]

Ok(c) == [ok |-> TRUE, coord |-> c]
ArtifactIdMissing(s) == [ok |-> FALSE, err |-> "ArtifactIdMissing", payload |-> s]
VersionMissing(s) == [ok |-> FALSE, err |-> "VersionMissing", payload |-> s]

jar == <<"jar">>

\* from_str, lines 50-64: the text after the second ':' is split on the last
\* '@' (extension, "jar" when there is none) and then on the first ':'
\* (version and classifier).
parse_tail(group, artifact, s) ==
  LET at         == rsplit_once(s, "@")
      s3         == IF at.some THEN at.l ELSE s
      extension  == IF at.some THEN at.r ELSE jar
      colon      == split_once(s3, ":")
      version    == IF colon.some THEN colon.l ELSE s3
      classifier == IF colon.some THEN Some(colon.r) ELSE None
  IN Ok(GradleSpecifier(group, artifact, version, classifier, extension))

\* from_str with the two error variants exchanged
from_str_swapped(s) ==
  LET first == split_once(s, ":") IN
  IF ~first.some THEN VersionMissing(s)
  ELSE LET second == split_once(first.r, ":") IN
       IF ~second.some THEN ArtifactIdMissing(first.r)
       ELSE parse_tail(first.l, second.l, second.r)

\* impl FromStr for GradleSpecifier.  Each `let (.., s) = s...` shadows s, and
\* the closure on the right of a `let` sees the s bound by the line before:
\* the whole text in line 46, the text after the first ':' in line 49.
from_str(s) ==
  LET first == split_once(s, ":") IN
  IF ~first.some THEN ArtifactIdMissing(s)
  ELSE LET second == split_once(first.r, ":") IN
       IF ~second.some THEN VersionMissing(first.r)
       ELSE parse_tail(first.l, second.l, second.r)

\* impl Display for GradleSpecifier
Display(c) ==
  c.group \o <<":">> \o c.artifact \o <<":">> \o c.version
    \o (IF c.classifier.some THEN <<":">> \o c.classifier.v ELSE <<>>)
    \o (IF c.extension # jar THEN <<"@">> \o c.extension ELSE <<>>)

\* str::replace(from, to) for single-character patterns
RECURSIVE replace(_, _, _)
replace(s, from, to) ==
  IF s = <<>> THEN <<>>
  ELSE <<IF Head(s) = from THEN to ELSE Head(s)>> \o replace(Tail(s), from, to)

\* to_url without the classifier suffix
to_url_no_classifier(c, base_repo) ==
  base_repo \o replace(c.group, ".", "/") \o <<"/">> \o c.artifact \o <<"/">>
    \o c.version \o <<"/">> \o c.artifact \o <<"-">> \o c.version
    \o <<".">> \o c.extension

\* GradleSpecifier::to_url: format!("{}{}/{}/{}/{}-{}{}.{}", ...)
to_url(c, base_repo) ==
  base_repo
    \o replace(c.group, ".", "/")
    \o <<"/">> \o c.artifact
    \o <<"/">> \o c.version
    \o <<"/">> \o c.artifact
    \o <<"-">> \o c.version
    \o (IF c.classifier.some THEN <<"-">> \o c.classifier.v ELSE <<>>)
    \o <<".">> \o c.extension

----------------------------------------------------------------------------
(* JSON values, as serde's data model hands them to the derived code       *)

Null    == [t |-> "null"]
Str(s)  == [t |-> "str", v |-> s]
Num(n)  == [t |-> "num", v |-> n]
Arr(xs) == [t |-> "arr", v |-> xs]
Obj(f)  == [t |-> "obj", v |-> f]

Keys(j) == DOMAIN j.v

----------------------------------------------------------------------------
(* Trait and BTreeSet<Trait>                                               *)

\* enum Trait, in declaration order; derive(PartialOrd, Ord) orders the
\* variants by declaration, derive(Serialize) writes a variant as its name
Trait ==
  << "MacStartOnFirstThread", "SupportsCustomResolution",
     "SupportsQuickPlayServerLegacy", "SupportsQuickPlayServer",
     "SupportsQuickPlayWorld" >>

Range(s) == {s[i] : i \in DOMAIN s}

TraitOrd(t) == CHOOSE i \in DOMAIN Trait : Trait[i] = t

\* insertion into a Vec used as a set: keeps insertion order
insert_unordered(set, t) ==
  IF t \in Range(set) THEN set ELSE Append(set, t)

\* BTreeSet::insert; the set is its elements in ascending Ord order
BTreeSet_insert(set, t) ==
  IF t \in Range(set) THEN set
  ELSE LET below == SelectSeq(set, LAMBDA x : TraitOrd(x) < TraitOrd(t))
           above == SelectSeq(set, LAMBDA x : TraitOrd(x) > TraitOrd(t))
       IN  below \o <<t>> \o above

\* Serialize for BTreeSet<Trait>: the elements in iteration order
serialize_traits(set) == [i \in DOMAIN set |-> Str(<<set[i]>>)]

----------------------------------------------------------------------------
(* The schema of component.rs: one type descriptor per Rust type, one      *)
(* field descriptor per struct field with its serde attributes             *)

TStr         == [k |-> "str"]
TU32         == [k |-> "u32"]
TDateTime    == [k |-> "datetime"]
TCoord       == [k |-> "coord"]
TEnum(names) == [k |-> "enum", names |-> names]
TList(T)     == [k |-> "list", of |-> T]
TOneOrMany(T) == [k |-> "one_or_many", of |-> T]
TOption(T)   == [k |-> "option", of |-> T]
TStruct(n)   == [k |-> "struct", name |-> n]

\* skip is the skip_serializing_if of the field ("never" without one),
\* default says whether the field carries #[serde(default)]
Field(n, T, skip, default) == [name |-> n, ty |-> T, skip |-> skip, default |-> default]

\* #[serde(rename_all = "snake_case")] enum OsName
OsName == TEnum({"linux", "osx", "windows"})

\* #[serde(rename_all = "snake_case")] enum Arch
Arch == TEnum({"x86", "x86_64", "arm64"})

\* #[serde(rename_all = "snake_case")] enum ConditionFeature
ConditionFeature ==
  TEnum({"demo", "fullscreen", "custom_resolution", "quick_play_server_legacy",
         "quick_play_server", "quick_play_world"})

\* BTreeSet<Trait>
TraitSet == [k |-> "set", of |-> TEnum(Range(Trait))]

\* #[serde(rename_all = "lowercase")] enum Hash { SHA256(String), SHA1(String) }
Hash == [k |-> "tagged", variants |-> {"sha256", "sha1"}, of |-> TStr]

\* #[serde(untagged)] enum ConditionalClasspathEntry, variants in source order
ConditionalClasspathEntry ==
  [k |-> "untagged",
   variants |-> << [name |-> "All", ty |-> TCoord],
                   [name |-> "PlatformSpecific", ty |-> TStruct("PlatformSpecific")] >>]

\* #[serde(untagged)] enum MinecraftArgument
MinecraftArgument ==
  [k |-> "untagged",
   variants |-> << [name |-> "Always", ty |-> TStr],
                   [name |-> "Conditional", ty |-> TStruct("Conditional")] >>]

ComponentDependencyFields ==
  << Field("id", TStr, "never", FALSE),
     Field("version", TOption(TStr), "none", TRUE) >>

DownloadFields ==
  << Field("name", TCoord, "never", FALSE),
     Field("url", TStr, "never", FALSE),
     Field("size", TU32, "never", FALSE),
     Field("hash", Hash, "never", FALSE) >>

PlatformFields ==
  << Field("os", TOneOrMany(OsName), "empty", TRUE),
     Field("arch", TOption(Arch), "none", FALSE) >>

NativeFields ==
  << Field("name", TCoord, "never", FALSE),
     Field("platform", TStruct("Platform"), "never", FALSE),
     Field("exclusions", TList(TStr), "empty", TRUE) >>

\* `platform` given #[serde(default)]
PlatformSpecificFields_defaulted ==
  << Field("name", TCoord, "never", FALSE),
     Field("platform", TStruct("Platform"), "never", TRUE) >>

\* the fields of ConditionalClasspathEntry::PlatformSpecific
PlatformSpecificFields ==
  << Field("name", TCoord, "never", FALSE),
     Field("platform", TStruct("Platform"), "never", FALSE) >>

AssetsFields ==
  << Field("id", TStr, "never", FALSE),
     Field("url", TStr, "never", FALSE),
     Field("sha1", TStr, "never", FALSE),
     Field("size", TU32, "never", FALSE),
     Field("total_size", TU32, "never", FALSE) >>

ConditionalFields ==
  << Field("value", TStr, "never", FALSE),
     Field("feature", ConditionFeature, "never", FALSE) >>

\* struct Component; #[skip_serializing_none] gives every Option field
\* skip_serializing_if = "Option::is_none"
ComponentFields ==
  << Field("format_version", TU32, "never", FALSE),
     Field("id", TStr, "never", FALSE),
     Field("version", TStr, "never", FALSE),
     Field("requires", TList(TStruct("ComponentDependency")), "empty", TRUE),
     Field("conflicts", TList(TStruct("ComponentDependency")), "empty", TRUE),
     Field("before", TList(TStruct("ComponentDependency")), "empty", TRUE),
     Field("after", TList(TStruct("ComponentDependency")), "empty", TRUE),
     Field("provides", TList(TStruct("ComponentDependency")), "empty", TRUE),
     Field("traits", TraitSet, "empty", TRUE),
     Field("assets", TOption(TStruct("Assets")), "none", FALSE),
     Field("downloads", TList(TStruct("Download")), "never", FALSE),
     Field("jarmods", TList(TCoord), "empty", TRUE),
     Field("game_jar", TOption(TCoord), "none", FALSE),
     Field("main_class", TOption(TStr), "none", FALSE),
     Field("game_arguments", TList(MinecraftArgument), "empty", TRUE),
     Field("classpath", TList(ConditionalClasspathEntry), "never", FALSE),
     Field("natives", TList(TStruct("Native")), "empty", TRUE),
     Field("release_time", TDateTime, "never", FALSE) >>

\* the structs by name; deny is #[serde(deny_unknown_fields)]
Schema(n) ==
  CASE n = "Component"           -> [deny |-> TRUE,  fields |-> ComponentFields]
    [] n = "ComponentDependency" -> [deny |-> FALSE, fields |-> ComponentDependencyFields]
    [] n = "Download"            -> [deny |-> FALSE, fields |-> DownloadFields]
    [] n = "Platform"            -> [deny |-> FALSE, fields |-> PlatformFields]
    [] n = "Native"              -> [deny |-> FALSE, fields |-> NativeFields]
    [] n = "PlatformSpecific"    -> [deny |-> FALSE, fields |-> PlatformSpecificFields]
    [] n = "Assets"              -> [deny |-> FALSE, fields |-> AssetsFields]
    [] n = "Conditional"         -> [deny |-> FALSE, fields |-> ConditionalFields]

----------------------------------------------------------------------------
(* What derive(Deserialize) and derive(Serialize) do with the schema       *)

Good(x)  == [ok |-> TRUE, val |-> x]
Bad(why) == [ok |-> FALSE, why |-> why]
Pending  == Bad("pending")

FieldNames(fields) == {fields[i].name : i \in DOMAIN fields}
FieldNamed(fields, n) == fields[CHOOSE i \in DOMAIN fields : fields[i].name = n]

\* Default::default() of the types that can be missing
DefaultOf(T) == IF T.k = "option" THEN None ELSE <<>>

RECURSIVE FoldInsert(_, _)
FoldInsert(set, xs) ==
  IF xs = <<>> THEN set ELSE FoldInsert(BTreeSet_insert(set, Head(xs)), Tail(xs))

RECURSIVE Decode(_, _)

\* the derived Deserialize of a struct read from a map.  (Outside an untagged
\* enum a derived struct also reads the positional array form; no document
\* here uses it.)
DecodeStruct(S, j) ==
  LET names == FieldNames(S.fields) IN
  IF j.t # "obj" THEN Bad("invalid type")
  ELSE IF S.deny /\ ~(Keys(j) \subseteq names) THEN Bad("unknown field")
  ELSE IF \E n \in names \cap Keys(j) : ~Decode(FieldNamed(S.fields, n).ty, j.v[n]).ok
       THEN Bad("invalid value")
  ELSE IF \E n \in names \ Keys(j) :
            LET f == FieldNamed(S.fields, n) IN ~f.default /\ f.ty.k # "option"
       THEN Bad("missing field")
  ELSE Good([n \in names |->
              IF n \in Keys(j) THEN Decode(FieldNamed(S.fields, n).ty, j.v[n]).val
              ELSE DefaultOf(FieldNamed(S.fields, n).ty)])

\* one variant of an untagged enum, tried on the buffered value
TryVariant(V, j) ==
  LET r == Decode(V.ty, j)
  IN  IF r.ok THEN Good([variant |-> V.name, v |-> r.val]) ELSE r

\* #[serde(untagged)]: the first variant, in declaration order, that accepts
DecodeUntagged(T, j) ==
  LET accepting == {i \in DOMAIN T.variants : TryVariant(T.variants[i], j).ok}
  IN  IF accepting = {} THEN Bad("no variant matched")
      ELSE TryVariant(T.variants[Min(accepting)], j)

DecodeList(T, j) ==
  IF j.t # "arr" THEN Bad("invalid type")
  ELSE IF \E i \in DOMAIN j.v : ~Decode(T, j.v[i]).ok THEN Bad("invalid value")
  ELSE Good([i \in DOMAIN j.v |-> Decode(T, j.v[i]).val])

Decode(T, j) ==
  CASE T.k = "str" -> IF j.t = "str" THEN Good(j.v) ELSE Bad("invalid type")
    [] T.k = "datetime" -> IF j.t = "str" THEN Good(j.v) ELSE Bad("invalid type")
    \* u32: every number the documents here hold is far below 2^32
    [] T.k = "u32" ->
         IF j.t = "num" /\ j.v >= 0 THEN Good(j.v) ELSE Bad("invalid type")
    [] T.k = "coord" ->
         IF j.t # "str" THEN Bad("invalid type")
         ELSE IF from_str(j.v).ok THEN Good(from_str(j.v).coord)
         ELSE Bad(from_str(j.v).err)
    [] T.k = "enum" ->
         IF j.t = "str" /\ Len(j.v) = 1 /\ j.v[1] \in T.names THEN Good(j.v[1])
         ELSE Bad("unknown variant")
    [] T.k = "tagged" ->
         IF j.t = "obj" /\ Cardinality(Keys(j)) = 1 /\ Keys(j) \subseteq T.variants
         THEN LET tag == CHOOSE n \in Keys(j) : TRUE
                  r   == Decode(T.of, j.v[tag])
              IN  IF r.ok THEN Good([variant |-> tag, v |-> r.val]) ELSE r
         ELSE Bad("invalid type")
    [] T.k = "list" -> DecodeList(T.of, j)
    [] T.k = "set" ->
         LET r == DecodeList(T.of, j)
         IN  IF r.ok THEN Good(FoldInsert(<<>>, r.val)) ELSE r
    [] T.k = "one_or_many" ->
         LET one == Decode(T.of, j)
         IN  IF one.ok THEN Good(<<one.val>>) ELSE DecodeList(T.of, j)
    [] T.k = "option" ->
         IF j = Null THEN Good(None)
         ELSE LET r == Decode(T.of, j) IN IF r.ok THEN Good(Some(r.val)) ELSE r
    [] T.k = "struct" -> DecodeStruct(Schema(T.name), j)
    [] T.k = "untagged" -> DecodeUntagged(T, j)

RECURSIVE Encode(_, _)

\* whether the field's skip_serializing_if holds for the value
Skipped(f, x) ==
  \/ f.skip = "empty" /\ x = <<>>
  \/ f.skip = "none" /\ x = None

\* the derived Serialize of a struct: a map of the fields not skipped
EncodeStruct(S, x) ==
  LET emitted == {n \in FieldNames(S.fields) : ~Skipped(FieldNamed(S.fields, n), x[n])}
  IN  Obj([n \in emitted |-> Encode(FieldNamed(S.fields, n).ty, x[n])])

VariantNamed(T, n) == T.variants[CHOOSE i \in DOMAIN T.variants : T.variants[i].name = n]

Encode(T, x) ==
  CASE T.k = "str" -> Str(x)
    [] T.k = "datetime" -> Str(x)
    [] T.k = "u32" -> Num(x)
    [] T.k = "coord" -> Str(Display(x))
    [] T.k = "enum" -> Str(<<x>>)
    [] T.k = "tagged" -> Obj([n \in {x.variant} |-> Encode(T.of, x.v)])
    [] T.k = "list" -> Arr([i \in DOMAIN x |-> Encode(T.of, x[i])])
    [] T.k = "set" -> Arr(serialize_traits(x))
    [] T.k = "one_or_many" ->
         IF Len(x) = 1 THEN Encode(T.of, x[1])
         ELSE Arr([i \in DOMAIN x |-> Encode(T.of, x[i])])
    [] T.k = "option" -> IF x = None THEN Null ELSE Encode(T.of, x.v)
    [] T.k = "struct" -> EncodeStruct(Schema(T.name), x)
    [] T.k = "untagged" -> Encode(VariantNamed(T, x.variant).ty, x.v)

----------------------------------------------------------------------------
(* Idle values of the variables a specification does not use               *)

NoRes == [ok |-> FALSE, err |-> "unset", payload |-> <<>>]

IdleCoord  == /\ phase = "start" /\ input = <<>> /\ res = NoRes /\ out = <<>>
              /\ res2 = NoRes /\ out2 = <<>> /\ repo = <<>> /\ url = <<>>
IdleTraits == traitsA = <<>> /\ traitsB = <<>> /\ histA = <<>> /\ histB = <<>>
IdleSerde  == step = "start" /\ comp = <<>> /\ doc = Null /\ dres = Pending
IdleCp     == cpstep = "start" /\ cpdoc = Null /\ cpres = Pending

----------------------------------------------------------------------------
(* Coordinates: parse or build, format, parse again, format again, to_url  *)

Parse ==
  /\ phase = "start"
  /\ \E t \in Texts :
       /\ input' = t
       /\ res' = from_str(t)
  /\ phase' = "parsed"
  /\ UNCHANGED <<out, res2, out2, repo, url, traitVars, serdeVars, cpVars>>

New ==
  /\ phase = "start"
  /\ \E g, a, v, e \in FieldStrs : \E c \in {None} \cup {Some(x) : x \in FieldStrs} :
       res' = Ok(GradleSpecifier(g, a, v, c, e))
  /\ phase' = "built"
  /\ UNCHANGED <<input, out, res2, out2, repo, url, traitVars, serdeVars, cpVars>>

Format ==
  /\ phase \in {"parsed", "built"}
  /\ res.ok
  /\ out' = Display(res.coord)
  /\ phase' = "formatted"
  /\ UNCHANGED <<input, res, res2, out2, repo, url, traitVars, serdeVars, cpVars>>

Reparse ==
  /\ phase = "formatted"
  /\ res2' = from_str(out)
  /\ phase' = "reparsed"
  /\ UNCHANGED <<input, res, out, out2, repo, url, traitVars, serdeVars, cpVars>>

Reformat ==
  /\ phase = "reparsed"
  /\ res2.ok
  /\ out2' = Display(res2.coord)
  /\ phase' = "done"
  /\ UNCHANGED <<input, res, out, res2, repo, url, traitVars, serdeVars, cpVars>>

ToUrl ==
  /\ phase \in {"parsed", "built"}
  /\ res.ok
  /\ \E b \in BaseRepos :
       /\ repo' = b
       /\ url' = to_url(res.coord, b)
  /\ phase' = "url"
  /\ UNCHANGED <<input, res, out, res2, out2, traitVars, serdeVars, cpVars>>

InitCoord == IdleCoord /\ IdleTraits /\ IdleSerde /\ IdleCp

NextCoord == Parse \/ New \/ Format \/ Reparse \/ Reformat \/ ToUrl

SpecCoord == InitCoord /\ [][NextCoord]_vars

----------------------------------------------------------------------------
(* Traits: two components receive traits in any order, any number of times *)

\* histA and histB record the traits in the order the caller inserted them
InsertA ==
  /\ Len(histA) < MaxInserts
  /\ \E t \in Range(Trait) :
       /\ traitsA' = BTreeSet_insert(traitsA, t)
       /\ histA' = Append(histA, t)
  /\ UNCHANGED <<traitsB, histB, coordVars, serdeVars, cpVars>>

InsertB ==
  /\ Len(histB) < MaxInserts
  /\ \E t \in Range(Trait) :
       /\ traitsB' = BTreeSet_insert(traitsB, t)
       /\ histB' = Append(histB, t)
  /\ UNCHANGED <<traitsA, histA, coordVars, serdeVars, cpVars>>

InitTraits == IdleCoord /\ IdleTraits /\ IdleSerde /\ IdleCp

NextTraits == InsertA \/ InsertB

SpecTraits == InitTraits /\ [][NextTraits]_vars

----------------------------------------------------------------------------
(* Components: build one, serialize it, let the document be edited the way *)
(* another writer's document may differ, deserialize it                    *)

ListFields   == {n \in FieldNames(ComponentFields) : FieldNamed(ComponentFields, n).ty.k = "list"}
OptionFields == {n \in FieldNames(ComponentFields) : FieldNamed(ComponentFields, n).ty.k = "option"}

SampleCoord == GradleSpecifier(<<"g", ".", "g">>, <<"g">>, <<"g">>, None, jar)
SamplePlatform == [os |-> <<"linux">>, arch |-> Some("x86_64")]
SampleDependency == [id |-> <<"g">>, version |-> None]

\* one well-formed element for each list field and a value for each option
SampleItem(n) ==
  CASE n \in {"requires", "conflicts", "before", "after", "provides"} -> SampleDependency
    [] n = "downloads" ->
         [name |-> SampleCoord, url |-> <<"g", "/">>, size |-> 1,
          hash |-> [variant |-> "sha256", v |-> <<"g">>]]
    [] n \in {"jarmods", "game_jar"} -> SampleCoord
    [] n = "main_class" -> <<"g", ".", "g">>
    [] n = "game_arguments" ->
         [variant |-> "Conditional", v |-> [value |-> <<"-", "g">>, feature |-> "demo"]]
    [] n = "classpath" ->
         [variant |-> "PlatformSpecific", v |-> [name |-> SampleCoord, platform |-> SamplePlatform]]
    [] n = "natives" ->
         [name |-> SampleCoord, platform |-> SamplePlatform, exclusions |-> <<>>]
    [] n = "assets" ->
         [id |-> <<"g">>, url |-> <<"g", "/">>, sha1 |-> <<"g">>, size |-> 1, total_size |-> 2]

SampleTraitSets ==
  { <<>>, <<"SupportsQuickPlayWorld">>, <<"MacStartOnFirstThread", "SupportsQuickPlayServer">> }

NewComponent(nonEmpty, present, traits) ==
  [n \in FieldNames(ComponentFields) |->
     CASE n \in ListFields   -> IF n \in nonEmpty THEN <<SampleItem(n)>> ELSE <<>>
       [] n \in OptionFields -> IF n \in present THEN Some(SampleItem(n)) ELSE None
       [] n = "traits"       -> traits
       [] n = "format_version" -> 1
       [] OTHER -> <<"g">>]

UnknownField == "unknown_field"

\* j with one more, unknown, key in exactly one of its records, at any depth
RECURSIVE Injections(_)
Injections(j) ==
  CASE j.t = "obj" ->
         {Obj(j.v @@ (UnknownField :> Num(1)))}
           \cup {Obj([j.v EXCEPT ![n] = x]) : <<n, x>> \in
                   UNION {{<<m, y>> : y \in Injections(j.v[m])} : m \in Keys(j)}}
    [] j.t = "arr" ->
         {Arr([j.v EXCEPT ![i] = x]) : <<i, x>> \in
            UNION {{<<m, y>> : y \in Injections(j.v[m])} : m \in DOMAIN j.v}}
    [] OTHER -> {}

Without(j, n) == Obj([m \in Keys(j) \ {n} |-> j.v[m]])

Build ==
  /\ step = "start"
  /\ \E nonEmpty \in {S \in SUBSET ListFields : Cardinality(S) <= MaxNonEmpty} :
     \E present \in SUBSET OptionFields :
     \E traits \in SampleTraitSets :
       comp' = NewComponent(nonEmpty, present, traits)
  /\ step' = "built"
  /\ UNCHANGED <<doc, dres, coordVars, traitVars, cpVars>>

Serialize ==
  /\ step = "built"
  /\ doc' = Encode(TStruct("Component"), comp)
  /\ step' = "serialized"
  /\ UNCHANGED <<comp, dres, coordVars, traitVars, cpVars>>

\* a writer that leaves a key out
DropKey ==
  /\ step = "serialized"
  /\ \E n \in Keys(doc) : doc' = Without(doc, n)
  /\ step' = "edited"
  /\ UNCHANGED <<comp, dres, coordVars, traitVars, cpVars>>

\* a writer that knows a field this schema does not
AddUnknown ==
  /\ step = "serialized"
  /\ \E d \in Injections(doc) : doc' = d
  /\ step' = "edited"
  /\ UNCHANGED <<comp, dres, coordVars, traitVars, cpVars>>

Deserialize ==
  /\ step \in {"serialized", "edited"}
  /\ dres' = Decode(TStruct("Component"), doc)
  /\ step' = "deserialized"
  /\ UNCHANGED <<comp, doc, coordVars, traitVars, cpVars>>

InitSerde == IdleCoord /\ IdleTraits /\ IdleSerde /\ IdleCp

NextSerde == Build \/ Serialize \/ DropKey \/ AddUnknown \/ Deserialize

SpecSerde == InitSerde /\ [][NextSerde]_vars

----------------------------------------------------------------------------
(* Classpath lists as they arrive in a document                            *)

GoodName == Str(<<"g", ":", "g", ":", "g">>)

NameValues == { GoodName, Str(<<"g", ":", "g">>), Num(1) }

PlatformValues ==
  { Obj(<<>>),
    Obj([os |-> Str(<<"linux">>)]),
    Obj([os |-> Arr(<<Str(<<"linux">>), Str(<<"osx">>)>>), arch |-> Str(<<"arm64">>)]),
    Obj([os |-> Str(<<"g">>)]),
    Str(<<"linux">>) }

EntryRecords ==
  { Obj([n \in ks |-> CASE n = "name" -> nm [] n = "platform" -> pf [] OTHER -> Num(1)]) :
      ks \in SUBSET {"name", "platform", UnknownField}, nm \in NameValues, pf \in PlatformValues }

EntryValues ==
  EntryRecords
    \cup { GoodName, Str(<<"g", ":", "g", ":", "g", ":", "g", "@", "g">>),
           Str(<<"g", ":", "g">>), Str(<<"g">>), Str(<<>>),
           Num(1), Null, Arr(<<>>), Arr(<<GoodName>>),
           Arr(<<GoodName, Obj(<<>>)>>) }

Receive ==
  /\ cpstep = "start"
  /\ \E n \in 0..MaxEntries : \E es \in [1..n -> EntryValues] : cpdoc' = Arr(es)
  /\ cpstep' = "received"
  /\ UNCHANGED <<cpres, coordVars, traitVars, serdeVars>>

DeserializeClasspath ==
  /\ cpstep = "received"
  /\ cpres' = Decode(TList(ConditionalClasspathEntry), cpdoc)
  /\ cpstep' = "deserialized"
  /\ UNCHANGED <<cpdoc, coordVars, traitVars, serdeVars>>

InitClasspath == IdleCoord /\ IdleTraits /\ IdleSerde /\ IdleCp

NextClasspath == Receive \/ DeserializeClasspath

SpecClasspath == InitClasspath /\ [][NextClasspath]_vars

----------------------------------------------------------------------------
(* Properties of the coordinate parser and formatter                       *)

NonEmptyCoord(c) ==
  c.group # <<>> /\ c.artifact # <<>> /\ c.version # <<>> /\ c.extension # <<>>

\* C1: for every coordinate c, returned by from_str or built from non-empty
\* fields, parsing Display(c) succeeds and returns a coordinate equal to c.
C1_ParseAfterFormat ==
  phase \in {"reparsed", "done"} => res2.ok /\ res2.coord = res.coord

\* C2: for every text s that Display produces, from_str(s) succeeds and
\* Display of the result is s again, character for character.
C2_FormatAfterParse ==
  /\ phase \in {"reparsed", "done"} => res2.ok
  /\ phase = "done" => out2 = out

\* C3: every coordinate from_str returns has a non-empty group, artifact,
\* version and extension.
C3_ParsedNonEmpty ==
  phase = "parsed" /\ res.ok => NonEmptyCoord(res.coord)

Colons(s) == Cardinality(Positions(s, ":"))

\* C4: the outcome of from_str is decided by the number of ':' in the text
\* alone: none gives ArtifactIdMissing, exactly one gives VersionMissing, two
\* or more give a coordinate.
C4_OutcomeByColons ==
  phase = "parsed" =>
    /\ (~res.ok /\ res.err = "ArtifactIdMissing") <=> Colons(input) = 0
    /\ (~res.ok /\ res.err = "VersionMissing") <=> Colons(input) = 1
    /\ res.ok <=> Colons(input) >= 2

C4_Witness ==
  /\ phase = "parsed"
  /\ Colons(input) = 1
  /\ "@" \in Range(input)
  /\ ~res.ok /\ res.err = "VersionMissing"

\* C5: whenever from_str fails, the error carries the whole original text.
C5_ErrorCarriesInput ==
  phase = "parsed" /\ ~res.ok => res.payload = input

\* the URL the repository layout prescribes
ExpectedUrl(c, base) ==
  LET group_path == [i \in 1..Len(c.group) |-> IF c.group[i] = "." THEN "/" ELSE c.group[i]]
      suffix     == IF c.classifier = None THEN <<>> ELSE <<"-">> \o c.classifier.v
      file       == c.artifact \o <<"-">> \o c.version \o suffix \o <<".">> \o c.extension
  IN  base \o group_path \o <<"/">> \o c.artifact \o <<"/">> \o c.version \o <<"/">> \o file

\* C6: to_url(c, base_repo) is base_repo, the group with every '.' replaced by
\* '/', "/" artifact "/" version "/" artifact "-" version, "-" classifier when
\* there is one, "." extension; base_repo is copied as it is and c is unchanged.
C6_ToUrl ==
  /\ [](phase = "url" => url = ExpectedUrl(res.coord, repo))
  /\ [][phase' = "url" => res' = res]_vars

C6_Witness ==
  /\ phase = "url"
  /\ res.coord.classifier.some
  /\ "." \in Range(res.coord.group)
  /\ repo # <<>>
  /\ url = ExpectedUrl(res.coord, repo)

----------------------------------------------------------------------------
(* Properties of the trait set                                             *)

ClaimedTraitOrder ==
  << "MacStartOnFirstThread", "SupportsCustomResolution",
     "SupportsQuickPlayServerLegacy", "SupportsQuickPlayServer",
     "SupportsQuickPlayWorld" >>

\* the traits of S, each once, in the claimed order
CanonicalTraits(S) ==
  LET picked == SelectSeq(ClaimedTraitOrder, LAMBDA t : t \in S)
  IN  [i \in DOMAIN picked |-> Str(<<picked[i]>>)]

\* C9: the serialized traits depend only on the set of traits inserted, not on
\* the order or number of insertions: each trait appears once, in the order
\* mac-start-on-first-thread, supports-custom-resolution,
\* supports-quick-play-server-legacy, supports-quick-play-server,
\* supports-quick-play-world.
C9_TraitsCanonical ==
  /\ Range(histA) = Range(histB) => serialize_traits(traitsA) = serialize_traits(traitsB)
  /\ serialize_traits(traitsA) = CanonicalTraits(Range(histA))
  /\ serialize_traits(traitsB) = CanonicalTraits(Range(histB))

C9_Witness ==
  /\ histA = <<"SupportsQuickPlayWorld", "MacStartOnFirstThread", "SupportsQuickPlayWorld">>
  /\ histB = <<"MacStartOnFirstThread", "SupportsQuickPlayWorld">>
  /\ serialize_traits(traitsA) = serialize_traits(traitsB)
  /\ Len(traitsA) = 2

----------------------------------------------------------------------------
(* Properties of the component schema                                      *)

\* a serialized component read back unedited is the component
SerdeRoundTrip ==
  step = "deserialized" /\ doc = Encode(TStruct("Component"), comp) => dres = Good(comp)

ClaimedListFields ==
  { "requires", "conflicts", "before", "after", "provides", "jarmods",
    "game_arguments", "natives", "downloads", "classpath" }

WithEmptyList(j, n) == Obj(j.v @@ (n :> Arr(<<>>)))

\* C7: for each of the ten list fields, a component whose list is empty is
\* serialized without the key, and a document without the key (and otherwise
\* acceptable: it is accepted with the key holding an empty list) is
\* deserialized, the field being the empty list.
C7_EmptyListsOmitted ==
  \A n \in ClaimedListFields :
    /\ step = "serialized" /\ comp[n] = <<>> => n \notin Keys(doc)
    /\ step = "deserialized" /\ n \notin Keys(doc)
         /\ Decode(TStruct("Component"), WithEmptyList(doc, n)).ok
       => dres.ok /\ dres.val[n] = <<>>

RECURSIVE Mentions(_, _)
Mentions(j, key) ==
  CASE j.t = "obj" -> key \in Keys(j) \/ \E n \in Keys(j) : Mentions(j.v[n], key)
    [] j.t = "arr" -> \E i \in DOMAIN j.v : Mentions(j.v[i], key)
    [] OTHER -> FALSE

\* C8: a document holding a field the schema does not know, at the top level
\* or inside any nested record, is never deserialized successfully.
C8_UnknownFieldsRejected ==
  step = "deserialized" /\ Mentions(doc, UnknownField) => ~dres.ok

----------------------------------------------------------------------------
(* Properties of classpath entries                                         *)

IsCoordinateText(j) == j.t = "str" /\ Colons(j.v) >= 2

IsOsTag(j) == j.t = "str" /\ j.v \in {<<"linux">>, <<"osx">>, <<"windows">>}

IsArchTag(j) == j.t = "str" /\ j.v \in {<<"x86">>, <<"x86_64">>, <<"arm64">>}

\* a record that is a platform scope: `os` one tag or a list of tags, `arch`
\* a tag, both optional
IsPlatformScope(j) ==
  /\ j.t = "obj"
  /\ "os" \in Keys(j) =>
       \/ IsOsTag(j.v["os"])
       \/ j.v["os"].t = "arr" /\ \A i \in DOMAIN j.v["os"].v : IsOsTag(j.v["os"].v[i])
  /\ "arch" \in Keys(j) => j.v["arch"] = Null \/ IsArchTag(j.v["arch"])

\* the variant the shape of the value calls for
ShapeOf(j) ==
  IF IsCoordinateText(j) THEN "All"
  ELSE IF /\ j.t = "obj"
          /\ {"name", "platform"} \subseteq Keys(j)
          /\ IsCoordinateText(j.v["name"])
          /\ IsPlatformScope(j.v["platform"])
       THEN "PlatformSpecific"
  ELSE "invalid"

AcceptedBy(i, j) == TryVariant(ConditionalClasspathEntry.variants[i], j).ok

====
